---- MODULE Spec2Model ----
(***************************************************************************)
(* jsoncons: the document builder (basic_json_deserializer) and the BSON   *)
(* reader (basic_bson_reader) that drives it through the event protocol.   *)
(*                                                                         *)
(* Bytes are integers 0..255, texts are sequences of bytes, a document     *)
(* value is a record tagged by its kind k.                                 *)
(***************************************************************************)
EXTENDS Integers, Sequences, FiniteSets, TLC

VARIABLES
    stack_,          \* basic_json_deserializer::stack_ (vector of stack_item)
    root_,           \* basic_json_deserializer::root_
    calls,           \* history: the handler calls made so far, in order
    consumed,        \* source_: the input bytes read so far
    eof,             \* source_: the input is exhausted (a read came up short)
    column_,         \* basic_bson_reader::column_
    nesting_depth_,  \* basic_bson_reader::nesting_depth_
    frames,          \* the reader's call stack (read / parse_e_list / parse_some)
    ec,              \* the std::error_code of decode_bson, passed down by reference
    mark,            \* history: input position after the last string/binary length
    status,          \* "events": driven by an event producer; else the state of read()
    step,            \* history: the label of the last step taken
    heap,            \* the json_object / json_array allocations made by stack_item
    pointers,        \* stack_[i].object_ / array_, as an index of heap (0: null)
    elems,           \* input generator: elements of the input read so far
    wide,            \* input generator: wide payloads, short input
    target,          \* codec: the container type T of conversion_traits<T>
    container,       \* codec: the container encoded, or the one decode returned
    stream,          \* codec: the events the basic_staj_reader delivers
    cursor           \* codec: the reader's position, the index of its current event

builderVars == <<stack_, root_>>
sourceVars  == <<consumed, eof>>
readerVars  == <<column_, nesting_depth_, frames, ec, mark>>
genVars     == <<elems, wide>>
codecVars   == <<target, container, stream, cursor>>
heapVars    == <<heap, pointers>>
vars == <<stack_, root_, calls, consumed, eof, column_, nesting_depth_, frames,
          ec, mark, status, step, elems, wide, target, container, stream, cursor,
          heap, pointers>>

(***************************************************************************)
(* Bounds                                                                  *)
(***************************************************************************)
MaxEvents == 6       \* events an event producer sends to the builder
MaxDepth == 3        \* containers open at once
MaxElems == 3        \* elements in one BSON input
MaxText == 2         \* bytes of text the input holds for one string

(***************************************************************************)
(* Document values (basic_json)                                            *)
(***************************************************************************)
basic_json_default == [k |-> "default"]
json_null == [k |-> "null"]
json_bool(b) == [k |-> "bool", v |-> b]
json_integer(n) == [k |-> "integer", v |-> n]
json_unsigned(n) == [k |-> "unsigned", v |-> n]
json_float(x) == [k |-> "float", v |-> x]
json_string(s) == [k |-> "string", v |-> s]
json_bytes(s) == [k |-> "byte_string", v |-> s]
json_array(elements) == [k |-> "array", v |-> elements]
json_object(members) == [k |-> "object", v |-> members]

member(name, value) == [name |-> name, value |-> value]

\* Positions of the members of ms named n.
Positions(ms, n) == {i \in 1..Len(ms) : ms[i].name = n}

Max(S) == CHOOSE x \in S : \A y \in S : y <= x
Min(S) == CHOOSE x \in S : \A y \in S : x <= y

RECURSIVE SelectIdx(_, _, _)
\* The subsequence of the positions of ms that are in keep, in order.
SelectIdx(ms, keep, i) ==
    IF i > Len(ms) THEN <<>>
    ELSE IF i \in keep THEN <<i>> \o SelectIdx(ms, keep, i + 1)
    ELSE SelectIdx(ms, keep, i + 1)

\* json_object::sort_members, the finalize step of an object: keys become
\* unique, the last write for a key wins, the members keep insertion order
\* (a key stays where it was first inserted).
sort_members(ms) ==
    LET first == {i \in 1..Len(ms) : i = Min(Positions(ms, ms[i].name))}
        idx == SelectIdx(ms, first, 1)
    IN [j \in 1..Len(idx) |->
           member(ms[idx[j]].name, ms[Max(Positions(ms, ms[idx[j]].name))].value)]

(***************************************************************************)
(* basic_json_deserializer.  A builder state is [stack_, root_]; a         *)
(* stack_item is [is_object_, name_, items]: items are the members of      *)
(* object_ or the elements of array_, whichever the item owns.             *)
(***************************************************************************)
Builder == [stack_ |-> stack_, root_ |-> root_]

stack_item(is_object) == [is_object_ |-> is_object, name_ |-> <<>>, items |-> <<>>]

Back(s) == s[Len(s)]
PopBack(s) == SubSeq(s, 1, Len(s) - 1)
SetBack(s, x) == [s EXCEPT ![Len(s)] = x]

\* Mutant of push_back: the new member or element goes to the front.
push_front(item, val) ==
    IF item.is_object_
    THEN [item EXCEPT !.items = <<member(item.name_, val)>> \o @, !.name_ = <<>>]
    ELSE [item EXCEPT !.items = <<val>> \o @]

\* object_->push_back(std::move(name_), val) on an object item (the moved-from
\* name_ is left empty), array_->push_back(val) on an array item.
push_back(item, val) ==
    IF item.is_object_
    THEN [item EXCEPT !.items = Append(@, member(item.name_, val)), !.name_ = <<>>]
    ELSE [item EXCEPT !.items = Append(@, val)]

do_begin_object(b) == [b EXCEPT !.stack_ = Append(@, stack_item(TRUE))]

\* Mutant of do_end_object: the call of sort_members is left out.
do_end_object_unsorted(b) ==
    LET val == json_object(Back(b.stack_).items)
        st == PopBack(b.stack_)
    IN IF Len(st) > 0
       THEN [b EXCEPT !.stack_ = SetBack(st, push_back(Back(st), val))]
       ELSE [stack_ |-> st, root_ |-> val]

\* The popped, finalized object goes to the new top frame, or becomes the
\* root when the stack is empty.
do_end_object(b) ==
    LET val == json_object(sort_members(Back(b.stack_).items))
        st == PopBack(b.stack_)
    IN IF Len(st) > 0
       THEN [b EXCEPT !.stack_ = SetBack(st, push_back(Back(st), val))]
       ELSE [stack_ |-> st, root_ |-> val]

\* Mutant of do_begin_array: the frame pushed is an object frame.
do_begin_array_object(b) == [b EXCEPT !.stack_ = Append(@, stack_item(TRUE))]

do_begin_array(b) == [b EXCEPT !.stack_ = Append(@, stack_item(FALSE))]

\* Mutant of do_end_array: the popped array always becomes the root.
do_end_array_root(b) ==
    LET val == json_array(Back(b.stack_).items)
        st == PopBack(b.stack_)
    IN [stack_ |-> st, root_ |-> val]

do_end_array(b) ==
    LET val == json_array(Back(b.stack_).items)
        st == PopBack(b.stack_)
    IN IF Len(st) > 0
       THEN [b EXCEPT !.stack_ = SetBack(st, push_back(Back(st), val))]
       ELSE [stack_ |-> st, root_ |-> val]

do_name(b, s) == [b EXCEPT !.stack_ = SetBack(@, [Back(@) EXCEPT !.name_ = s])]

do_string_value(b, s) ==
    [b EXCEPT !.stack_ = SetBack(@, push_back(Back(@), json_string(s)))]

do_integer_value(b, value) ==
    [b EXCEPT !.stack_ = SetBack(@, push_back(Back(@), json_integer(value)))]

do_unsigned_integer_value(b, value) ==
    [b EXCEPT !.stack_ = SetBack(@, push_back(Back(@), json_unsigned(value)))]

do_float_value(b, value) ==
    [b EXCEPT !.stack_ = SetBack(@, push_back(Back(@), json_float(value)))]

do_bool_value(b, value) ==
    [b EXCEPT !.stack_ = SetBack(@, push_back(Back(@), json_bool(value)))]

do_null_value(b) ==
    [b EXCEPT !.stack_ = SetBack(@, push_back(Back(@), json_null))]

\* The byte-string handler of the builder (event protocol, byteStringValue).
do_byte_string_value(b, s) ==
    [b EXCEPT !.stack_ = SetBack(@, push_back(Back(@), json_bytes(s)))]

(***************************************************************************)
(* Events: one record per handler call.                                    *)
(***************************************************************************)
BeginObject == [ev |-> "begin_object"]
EndObject == [ev |-> "end_object"]
BeginArray == [ev |-> "begin_array"]
EndArray == [ev |-> "end_array"]
Name(s) == [ev |-> "name", v |-> s]
StringValue(s) == [ev |-> "string_value", v |-> s]
ByteStringValue(s) == [ev |-> "byte_string_value", v |-> s]
Int64Value(n) == [ev |-> "int64_value", v |-> n]
UInt64Value(n, tag) == [ev |-> "uint64_value", v |-> n, tag |-> tag]
DoubleValue(x) == [ev |-> "double_value", v |-> x]
BoolValue(b) == [ev |-> "bool_value", v |-> b]
NullValue == [ev |-> "null_value"]

ScalarEvents == {"string_value", "byte_string_value", "int64_value",
                 "uint64_value", "double_value", "bool_value", "null_value"}

\* The builder receives event e: the handler the call dispatches to.
Deliver(b, e) ==
    CASE e.ev = "begin_object" -> do_begin_object(b)
      [] e.ev = "end_object" -> do_end_object(b)
      [] e.ev = "begin_array" -> do_begin_array(b)
      [] e.ev = "end_array" -> do_end_array(b)
      [] e.ev = "name" -> do_name(b, e.v)
      [] e.ev = "string_value" -> do_string_value(b, e.v)
      [] e.ev = "byte_string_value" -> do_byte_string_value(b, e.v)
      [] e.ev = "int64_value" -> do_integer_value(b, e.v)
      [] e.ev = "uint64_value" -> do_unsigned_integer_value(b, e.v)
      [] e.ev = "double_value" -> do_float_value(b, e.v)
      [] e.ev = "bool_value" -> do_bool_value(b, e.v)
      [] e.ev = "null_value" -> do_null_value(b)

(***************************************************************************)
(* The event grammar                                                       *)
(*   value := scalar | array | object                                      *)
(*   array := BeginArray value* EndArray                                   *)
(*   object := BeginObject (Name value)* EndObject                         *)
(* as a recogniser over a sequence of calls: open is the stack of the      *)
(* kinds of the open containers, named says that the innermost object has  *)
(* a Name awaiting its value, done that the top-level value is complete.   *)
(***************************************************************************)
GInit == [ok |-> TRUE, open |-> <<>>, named |-> FALSE, done |-> FALSE]

InObject(g) == Len(g.open) > 0 /\ Back(g.open) = "object"
InArray(g) == Len(g.open) > 0 /\ Back(g.open) = "array"

\* A value may start here.
ValueOk(g) ==
    /\ ~g.done
    /\ \/ Len(g.open) = 0
       \/ InArray(g)
       \/ InObject(g) /\ g.named

Closed(g) ==
    [g EXCEPT !.open = PopBack(@), !.named = FALSE, !.done = (Len(g.open) = 1)]

GStep(g, e) ==
    IF ~g.ok THEN g
    ELSE CASE e.ev = "name" ->
                IF InObject(g) /\ ~g.named
                THEN [g EXCEPT !.named = TRUE] ELSE [g EXCEPT !.ok = FALSE]
           [] e.ev = "begin_object" ->
                IF ValueOk(g)
                THEN [g EXCEPT !.open = Append(@, "object"), !.named = FALSE]
                ELSE [g EXCEPT !.ok = FALSE]
           [] e.ev = "begin_array" ->
                IF ValueOk(g)
                THEN [g EXCEPT !.open = Append(@, "array"), !.named = FALSE]
                ELSE [g EXCEPT !.ok = FALSE]
           [] e.ev = "end_object" ->
                IF InObject(g) /\ ~g.named THEN Closed(g) ELSE [g EXCEPT !.ok = FALSE]
           [] e.ev = "end_array" ->
                IF InArray(g) THEN Closed(g) ELSE [g EXCEPT !.ok = FALSE]
           [] OTHER ->
                IF ValueOk(g)
                THEN [g EXCEPT !.named = FALSE, !.done = (Len(g.open) = 0)]
                ELSE [g EXCEPT !.ok = FALSE]

RECURSIVE GRun(_, _, _)
GRun(g, es, i) == IF i > Len(es) THEN g ELSE GRun(GStep(g, es[i]), es, i + 1)

Grammar(es) == GRun(GInit, es, 1)

\* es is a prefix of a sentence of the grammar / a whole value.
Conforms(es) == Grammar(es).ok
Complete(es) == Grammar(es).ok /\ Grammar(es).done

(***************************************************************************)
(* An event producer driving the builder: it sends any event that keeps    *)
(* the sequence in the grammar, the top-level value an object or an array. *)
(***************************************************************************)
Names == {<<120>>, <<121>>}
Texts == {<<122>>}
IntValues == {1, 2}
UIntValues == {1}
FloatValues == {<<63, 248, 0, 0, 0, 0, 0, 0>>}

(***************************************************************************)
(* Ownership of the containers.  heap[p] is the allocation p: its kind,    *)
(* its owner ("frame": the raw pointer of a stack_item; "value": the       *)
(* basic_json built from the released pointer) and how many times the      *)
(* builder has deleted it.                                                 *)
(***************************************************************************)
Owner == [heap |-> heap, pointers |-> pointers]

\* stack_item(is_object, capacity): new json_object() or new json_array(),
\* kept in object_ or array_; the item is pushed on stack_.
new_container(o, is_object) ==
    [heap |-> Append(o.heap, [is_object_ |-> is_object, owner |-> "frame",
                              deleted |-> 0]),
     pointers |-> Append(o.pointers, Len(o.heap) + 1)]

\* release_object() / release_array() of the top item: its pointer is swapped
\* with 0 and the basic_json val built from it owns the container; then
\* stack_.pop_back().
release(o) ==
    LET p == Back(o.pointers)
    IN [heap |-> IF p = 0 THEN o.heap ELSE [o.heap EXCEPT ![p].owner = "value"],
        pointers |-> PopBack(SetBack(o.pointers, 0))]

\* The builder receives event e: what becomes of the containers.
Own(o, e) ==
    CASE e.ev = "begin_object" -> new_container(o, TRUE)
      [] e.ev = "begin_array" -> new_container(o, FALSE)
      [] e.ev \in {"end_object", "end_array"} -> release(o)
      [] OTHER -> o

RECURSIVE OwnAll(_, _, _)
OwnAll(o, es, i) ==
    IF i > Len(es) THEN o ELSE OwnAll(Own(o, es[i]), es, i + 1)

\* stack_item::destroy(): delete object_ or delete array_, by is_object_.
destroy(h, p) == IF p = 0 THEN h ELSE [h EXCEPT ![p].deleted = @ + 1]

RECURSIVE destroy_from(_, _, _)
destroy_from(h, ps, i) ==
    IF i > Len(ps) THEN h ELSE destroy_from(destroy(h, ps[i]), ps, i + 1)

\* Mutant of destructor_loop: the loop starts at the second item.
destructor_loop_from_second(h, ps) == destroy_from(h, ps, 2)

\* ~basic_json_deserializer(): stack_[i].destroy() for every item of stack_.
destructor_loop(h, ps) == destroy_from(h, ps, 1)

MaySend(e) ==
    /\ status = "events"
    /\ Len(calls) < MaxEvents
    /\ GStep(Grammar(calls), e).ok
    /\ Len(GStep(Grammar(calls), e).open) <= MaxDepth
    /\ e.ev \in ScalarEvents => Len(Grammar(calls).open) > 0

Send(e) ==
    /\ MaySend(e)
    /\ calls' = Append(calls, e)
    /\ stack_' = Deliver(Builder, e).stack_
    /\ root_' = Deliver(Builder, e).root_
    /\ heap' = Own(Owner, e).heap
    /\ pointers' = Own(Owner, e).pointers
    /\ step' = e.ev
    /\ UNCHANGED <<codecVars, sourceVars, readerVars, status, genVars>>

begin_object == Send(BeginObject)
end_object == Send(EndObject)
begin_array == Send(BeginArray)
end_array == Send(EndArray)
name == \E s \in Names : Send(Name(s))
string_value == \E s \in Texts : Send(StringValue(s))
integer_value == \E n \in IntValues : Send(Int64Value(n))
unsigned_integer_value == \E n \in UIntValues : Send(UInt64Value(n, "none"))
float_value == \E x \in FloatValues : Send(DoubleValue(x))
bool_value == \E b \in BOOLEAN : Send(BoolValue(b))
null_value == Send(NullValue)

InitIdle ==
    /\ stack_ = <<>>
    /\ root_ = basic_json_default
    /\ calls = <<>>
    /\ consumed = <<>>
    /\ eof = FALSE
    /\ column_ = 1
    /\ nesting_depth_ = 0
    /\ ec = FALSE
    /\ mark = 0
    /\ step = "init"
    /\ elems = 0
    /\ heap = <<>>
    /\ pointers = <<>>

\* No conversion is in progress.
InitNoCodec ==
    /\ target = "none"
    /\ container = "none"
    /\ stream = <<>>
    /\ cursor = 1

InitBuilder ==
    /\ InitIdle
    /\ InitNoCodec
    /\ frames = <<>>
    /\ status = "events"
    /\ wide = FALSE

NextBuilder ==
    \/ begin_object
    \/ end_object
    \/ begin_array
    \/ end_array
    \/ name
    \/ string_value
    \/ integer_value
    \/ unsigned_integer_value
    \/ float_value
    \/ bool_value
    \/ null_value

SpecBuilder == InitBuilder /\ [][NextBuilder]_vars

(***************************************************************************)
(* The tree a sequence of events describes, by recursive descent.  A parse *)
(* returns the position after what it read; a sequence that ends early     *)
(* parses to a position beyond Len(es) + 1.                                *)
(***************************************************************************)
ScalarOf(e) ==
    CASE e.ev = "string_value" -> json_string(e.v)
      [] e.ev = "byte_string_value" -> json_bytes(e.v)
      [] e.ev = "int64_value" -> json_integer(e.v)
      [] e.ev = "uint64_value" -> json_unsigned(e.v)
      [] e.ev = "double_value" -> json_float(e.v)
      [] e.ev = "bool_value" -> json_bool(e.v)
      [] e.ev = "null_value" -> json_null

RECURSIVE ParseValue(_, _), ParseMembers(_, _, _), ParseElements(_, _, _)

ParseValue(es, i) ==
    IF i > Len(es) THEN [val |-> json_null, next |-> Len(es) + 2]
    ELSE CASE es[i].ev = "begin_object" ->
                LET r == ParseMembers(es, i + 1, <<>>)
                IN [val |-> json_object(sort_members(r.items)), next |-> r.next]
           [] es[i].ev = "begin_array" ->
                LET r == ParseElements(es, i + 1, <<>>)
                IN [val |-> json_array(r.items), next |-> r.next]
           [] es[i].ev \in ScalarEvents -> [val |-> ScalarOf(es[i]), next |-> i + 1]
           [] OTHER -> [val |-> json_null, next |-> Len(es) + 2]

ParseMembers(es, i, acc) ==
    IF i > Len(es) THEN [items |-> acc, next |-> Len(es) + 2]
    ELSE IF es[i].ev = "end_object" THEN [items |-> acc, next |-> i + 1]
    ELSE IF es[i].ev # "name" THEN [items |-> acc, next |-> Len(es) + 2]
    ELSE LET r == ParseValue(es, i + 1)
         IN ParseMembers(es, r.next, Append(acc, member(es[i].v, r.val)))

ParseElements(es, i, acc) ==
    IF i > Len(es) THEN [items |-> acc, next |-> Len(es) + 2]
    ELSE IF es[i].ev = "end_array" THEN [items |-> acc, next |-> i + 1]
    ELSE LET r == ParseValue(es, i)
         IN ParseElements(es, r.next, Append(acc, r.val))

TreeOf(es) == ParseValue(es, 1).val

\* The object closed by the last call: where it began, the (name, value)
\* pairs its events carried, and the value the builder made of it.
LastBegin ==
    CHOOSE j \in 1..Len(calls) :
        calls[j].ev = "begin_object" /\ ParseValue(calls, j).next = Len(calls) + 1

RawMembers == ParseMembers(calls, LastBegin + 1, <<>>).items

LastPlaced ==
    IF stack_ = <<>> THEN root_
    ELSE LET it == Back(stack_).items
         IN IF Back(stack_).is_object_ THEN it[Len(it)].value ELSE it[Len(it)]

ObjectClosed == status = "events" /\ step = "end_object"

(***************************************************************************)
(* Claims about the builder, under SpecBuilder                             *)
(***************************************************************************)

\* C1: once a grammar-conforming sequence whose top-level value is an object
\* or an array is complete, the frame stack is empty and root() is the tree
\* the events describe (each closed container appended to the frame below it,
\* under the pending name in an object frame, positionally in an array frame).
C1_RootIsTree ==
    (status = "events" /\ Complete(calls)) =>
        (stack_ = <<>> /\ root_ = TreeOf(calls))

\* C1 witness: a complete sequence whose root object holds a non-empty array
\* under a name.
C1_Witness ==
    /\ status = "events" /\ Complete(calls)
    /\ root_.k = "object"
    /\ \E i \in 1..Len(root_.v) :
          root_.v[i].value.k = "array" /\ Len(root_.v[i].value.v) > 0

Source == [consumed |-> consumed, eof |-> eof]

MinOf(a, b) == IF a < b THEN a ELSE b

\* source_.read(buf, n): got are the bytes actually read.
source_read(src, n, avail) ==
    IF src.eof \/ n <= 0 THEN [got |-> <<>>, src |-> src]
    ELSE LET k == MinOf(n, Len(avail))
         IN [got |-> SubSeq(avail, 1, k),
             src |-> [consumed |-> src.consumed \o SubSeq(avail, 1, k),
                      eof |-> Len(avail) < n]]

\* source_.get(c): one byte, or nothing at the end of the input.
source_get(src, avail) == source_read(src, 1, avail)

(***************************************************************************)
(* Little-endian decoding (jsoncons::detail::from_little_endian<T>).       *)
(* Evaluated from the most significant byte down, so that no intermediate  *)
(* value is larger in magnitude than the result.                           *)
(***************************************************************************)
RECURSIVE Horner(_, _, _)
Horner(buf, i, acc) == IF i = 0 THEN acc ELSE Horner(buf, i - 1, acc * 256 + buf[i])

from_little_endian_signed(buf) ==
    LET top == buf[Len(buf)]
    IN Horner(buf, Len(buf) - 1, IF top >= 128 THEN top - 256 ELSE top)

from_little_endian_unsigned(buf) == Horner(buf, Len(buf) - 1, buf[Len(buf)])

\* A double is represented by its IEEE-754 image, most significant byte first.
from_little_endian_double(buf) == [i \in 1..Len(buf) |-> buf[Len(buf) + 1 - i]]

\* The big-endian reading, for a mutant of the int32 case.
from_big_endian_signed(buf) ==
    from_little_endian_signed([i \in 1..Len(buf) |-> buf[Len(buf) + 1 - i]])

(***************************************************************************)
(* bson_format type tags                                                   *)
(***************************************************************************)
bson_format ==
    [double_cd |-> 1, string_cd |-> 2, document_cd |-> 3, array_cd |-> 4,
     binary_cd |-> 5, bool_cd |-> 8, null_cd |-> 10, int32_cd |-> 16,
     timestamp_cd |-> 17, int64_cd |-> 18]

KnownTags == {bson_format[f] : f \in DOMAIN bson_format}

(***************************************************************************)
(* The inputs.  What the input may hold at each read:                      *)
(*  - a narrow input (wide = FALSE) has up to MaxElems elements and few    *)
(*    payloads; its length fields and element names are those of the       *)
(*    nesting document > array > document;                                 *)
(*  - a wide input (wide = TRUE) has one element and many payloads.        *)
(* Every offer may also be cut short: the input may end at any byte.       *)
(***************************************************************************)
Prefixes(P) == {SubSeq(p, 1, k) : p \in P, k \in 0..Max({Len(q) : q \in P})} 

Quads(B) == {<<a, b, c, d>> : a \in B, b \in B, c \in B, d \in B}

TagBytes == KnownTags \cup {255}

NestLengths == <<30, 22, 14>>

LenFields ==
    IF wide THEN {<<5, 0, 0, 0>>, <<8, 0, 0, 0>>, <<0, 0, 0, 0>>, <<255, 255, 255, 255>>}
    ELSE IF nesting_depth_ < Len(NestLengths)
         THEN {<<NestLengths[nesting_depth_ + 1], 0, 0, 0>>}
         ELSE {<<5, 0, 0, 0>>}

StringLengths ==
    IF wide
    THEN {<<0, 0, 0, 0>>, <<1, 0, 0, 0>>, <<2, 0, 0, 0>>, <<3, 0, 0, 0>>, <<4, 0, 0, 0>>,
          <<255, 255, 255, 255>>, <<0, 0, 0, 128>>, <<255, 255, 255, 127>>}
    ELSE {<<1, 0, 0, 0>>, <<2, 0, 0, 0>>}

BinaryLengths ==
    IF wide
    THEN {<<0, 0, 0, 0>>, <<1, 0, 0, 0>>, <<2, 0, 0, 0>>, <<3, 0, 0, 0>>,
          <<255, 255, 255, 255>>, <<0, 0, 0, 128>>}
    ELSE {<<1, 0, 0, 0>>}

RECURSIVE Repeat(_, _)
Repeat(b, n) == IF n <= 0 THEN <<>> ELSE <<b>> \o Repeat(b, n - 1)

\* The text of a string or the bytes of a binary, with what follows it.
TextOffers ==
    {Repeat(122, n) : n \in 0..MaxText} \cup {Repeat(122, n) \o <<0>> : n \in 0..MaxText}
TerminatorOffers == {<<>>, <<0>>}

\* The offers that matter to a read of n bytes: those no longer than n.
UpTo(offers, n) == {o \in offers : Len(o) <= n}

Int32Payloads ==
    IF wide THEN Quads({0, 1, 127, 128, 255})
    ELSE {<<1, 0, 0, 0>>, <<255, 255, 255, 255>>}

DoublePayloads == {<<0, 0, 0, 0, 0, 0, 248, 63>>}
Int64Payloads == {<<254, 255, 255, 255, 255, 255, 255, 255>>}
TimestampPayloads == {<<1, 1, 0, 0, 0, 0, 0, 0>>}
BoolPayloads == IF wide THEN {<<0>>, <<1>>, <<2>>} ELSE {<<1>>}

NestNames == <<<<120>>, <<48>>, <<121>>>>

ElementNames ==
    IF wide THEN Names
    ELSE IF 0 < nesting_depth_ /\ nesting_depth_ <= Len(NestNames)
         THEN {NestNames[nesting_depth_]}
         ELSE {<<120>>}

NameOffers == {nm \o <<0>> : nm \in ElementNames} \cup Prefixes(ElementNames)

ElemBudget == IF wide THEN 1 ELSE MaxElems

(***************************************************************************)
(* basic_bson_reader.  frames is the call stack: a frame is [fn, pc, arg]. *)
(***************************************************************************)
Frame(fn, pc, arg) == [fn |-> fn, pc |-> pc, arg |-> arg]

At(fn, pc) ==
    /\ status = "running"
    /\ Len(frames) > 0
    /\ Back(frames).fn = fn
    /\ Back(frames).pc = pc

SetSource(src) == consumed' = src.consumed /\ eof' = src.eof

RECURSIVE DeliverAll(_, _, _)
DeliverAll(b, es, i) ==
    IF i > Len(es) THEN b ELSE DeliverAll(Deliver(b, es[i]), es, i + 1)

\* The handler calls es are made, in order, on the builder.
Emit(es) ==
    /\ calls' = calls \o es
    /\ stack_' = DeliverAll(Builder, es, 1).stack_
    /\ root_' = DeliverAll(Builder, es, 1).root_
    /\ heap' = OwnAll(Owner, es, 1).heap
    /\ pointers' = OwnAll(Owner, es, 1).pointers

\* JSONCONS_THROW: the exception leaves read() and decode_bson.
Throw(what) ==
    /\ status' = what
    /\ frames' = <<>>
    /\ Emit(<<>>)
    /\ UNCHANGED nesting_depth_

\* A call returns: its frame is popped; the return of the outermost read()
\* takes decode_bson to its test of ec.
Return(fs) ==
    /\ frames' = fs
    /\ status' = IF fs = <<>> THEN (IF ec THEN "parse_error" ELSE "returned")
                 ELSE status

\* A parse_some case that emits the scalar event e and breaks.
Scalar(e) ==
    /\ Emit(<<e>>)
    /\ Return(PopBack(frames))
    /\ UNCHANGED nesting_depth_

\* Mutant of read_begin: the declared length is validated against the smallest
\* document before anything is delivered.
read_begin_checked ==
    /\ At("read", "begin")
    /\ \E avail \in Prefixes(LenFields) :
          LET r == source_read(Source, 4, avail)
          IN /\ SetSource(r.src)
             /\ IF Len(r.got) # 4 \/ from_little_endian_signed(r.got) < 5
                THEN Throw("bson_error")
                ELSE /\ Emit(<<BeginObject>>)
                     /\ nesting_depth_' = nesting_depth_ + 1
                     /\ frames' = SetBack(frames, Frame("read", "end", 0))
                                     \o <<Frame("parse_e_list", "loop", "document")>>
                     /\ UNCHANGED status
    /\ step' = "read_begin"
    /\ UNCHANGED <<codecVars, column_, ec, mark, genVars>>

\* read(), up to the call of parse_e_list.
read_begin ==
    /\ At("read", "begin")
    /\ \E avail \in Prefixes(LenFields) :
          LET r == source_read(Source, 4, avail)
          IN /\ SetSource(r.src)
             /\ IF Len(r.got) # 4
                THEN Throw("bson_error")
                ELSE /\ Emit(<<BeginObject>>)
                     /\ nesting_depth_' = nesting_depth_ + 1
                     /\ frames' = SetBack(frames, Frame("read", "end", 0))
                                     \o <<Frame("parse_e_list", "loop", "document")>>
                     /\ UNCHANGED status
    /\ step' = "read_begin"
    /\ UNCHANGED <<codecVars, column_, ec, mark, genVars>>

\* read(), after parse_e_list has returned.
read_end ==
    /\ At("read", "end")
    /\ Emit(<<EndObject>>)
    /\ nesting_depth_' = nesting_depth_ - 1
    /\ Return(PopBack(frames))
    /\ step' = "read_end"
    /\ UNCHANGED <<codecVars, sourceVars, column_, ec, mark, genVars>>

\* parse_e_list: the loop ends, at a 0x00 tag or at the end of the input.
parse_e_list_end ==
    /\ At("parse_e_list", "loop")
    /\ \E avail \in {<<>>, <<0>>} :
          LET r == source_get(Source, avail)
          IN /\ IF Len(r.got) > 0 THEN r.got[1] = 0 ELSE TRUE
             /\ SetSource(r.src)
    /\ Emit(<<>>)
    /\ Return(PopBack(frames))
    /\ step' = "parse_e_list_end"
    /\ UNCHANGED <<codecVars, column_, nesting_depth_, ec, mark, genVars>>

\* The loop reading an element name: up to a NUL or the end of the input.
RECURSIVE name_loop(_, _, _)
name_loop(avail, i, s) ==
    IF i > Len(avail) THEN [s |-> s, used |-> avail, eof |-> TRUE]
    ELSE IF avail[i] = 0 THEN [s |-> s, used |-> SubSeq(avail, 1, i), eof |-> FALSE]
    ELSE name_loop(avail, i + 1, Append(s, avail[i]))

read_name(src, avail) ==
    IF src.eof THEN [s |-> <<>>, src |-> src]
    ELSE LET n == name_loop(avail, 1, <<>>)
         IN [s |-> n.s,
             src |-> [consumed |-> src.consumed \o n.used, eof |-> n.eof]]

\* The input offers the tag t here.
MayOffer(t) ==
    /\ elems < ElemBudget
    /\ t \in {bson_format.document_cd, bson_format.array_cd} =>
          nesting_depth_ < MaxDepth

\* parse_e_list: one iteration of the loop, up to the call of parse_some.
parse_e_list_element ==
    /\ At("parse_e_list", "loop")
    /\ \E t \in TagBytes, offer \in NameOffers :
          LET r == source_get(Source, <<t>>)
              n == read_name(r.src, offer)
          IN /\ MayOffer(t)
             /\ Len(r.got) > 0 /\ r.got[1] # 0
             /\ SetSource(n.src)
             /\ IF Back(frames).arg = "document"
                THEN Emit(<<Name(n.s)>>)
                ELSE Emit(<<>>)
             /\ frames' = Append(frames, Frame("parse_some", "switch", r.got[1]))
    /\ elems' = elems + 1
    /\ step' = "parse_e_list_element"
    /\ UNCHANGED <<codecVars, column_, nesting_depth_, ec, mark, status, wide>>

Case(t) == At("parse_some", "switch") /\ Back(frames).arg = t

double_event(buf) == DoubleValue(from_little_endian_double(buf))

case_double ==
    /\ Case(bson_format.double_cd)
    /\ \E avail \in Prefixes(DoublePayloads) :
          LET r == source_read(Source, 8, avail)
          IN /\ SetSource(r.src)
             /\ IF Len(r.got) # 8
                THEN Throw("bson_error")
                ELSE Scalar(double_event(r.got))
    /\ step' = "case_double"
    /\ UNCHANGED <<codecVars, column_, ec, mark, genVars>>

\* std::basic_string::reserve and the std::vector constructor take a size_t:
\* a negative count converts to one beyond max_size().
TooLong(n) == n < 0

\* len - 1 overflows int32_t for the least int32_t: undefined behaviour.  The
\* builds wrap it to the greatest int32_t, a count that reserve may refuse
\* and that no input of this model holds: the case ends in an exception.
Overflows(len) == len < -2147483647

\* Mutant of string_count: the trailing NUL is counted into the text.
string_count_whole(len) == len

\* The bytes of text of a string of declared length len.
string_count(len) == len - 1

\* A throw out of the string or binary case.
Fail(what) ==
    /\ status' \in what
    /\ frames' = <<>>
    /\ Emit(<<>>)
    /\ UNCHANGED nesting_depth_

case_string ==
    /\ Case(bson_format.string_cd)
    /\ \E avail \in Prefixes(StringLengths) :
          LET r == source_read(Source, 4, avail)
              len == from_little_endian_signed(r.got)
          IN /\ mark' = IF Len(r.got) = 4 THEN Len(r.src.consumed) ELSE 0
             /\ IF Len(r.got) # 4
                THEN SetSource(r.src) /\ Fail({"bson_error"})
                ELSE IF Overflows(len)
                THEN SetSource(r.src)
                     /\ Fail({"bson_error", "length_error", "bad_alloc"})
                ELSE IF TooLong(string_count(len))
                THEN SetSource(r.src) /\ Fail({"length_error"})
                ELSE \E text \in UpTo(TextOffers, string_count(len)),
                        nul \in TerminatorOffers :
                        LET t == source_read(r.src, string_count(len), text)
                            c == source_get(t.src, nul)
                        IN IF Len(t.got) # string_count(len)
                           THEN SetSource(t.src) /\ Fail({"bson_error"})
                           ELSE /\ SetSource(c.src)
                                /\ Emit(<<StringValue(t.got)>>)
                                /\ Return(PopBack(frames))
                                /\ UNCHANGED nesting_depth_
    /\ step' = "case_string"
    /\ UNCHANGED <<codecVars, column_, ec, genVars>>

\* The embedded document is read by read().
case_document ==
    /\ Case(bson_format.document_cd)
    /\ frames' = SetBack(frames, Frame("parse_some", "document_ret", 0))
                    \o <<Frame("read", "begin", 0)>>
    /\ Emit(<<>>)
    /\ step' = "case_document"
    /\ UNCHANGED <<codecVars, sourceVars, column_, nesting_depth_, ec, mark, status, genVars>>

\* read(ec) has returned: if (ec) return; break;
document_ret ==
    /\ At("parse_some", "document_ret")
    /\ Emit(<<>>)
    /\ Return(PopBack(frames))
    /\ step' = "document_ret"
    /\ UNCHANGED <<codecVars, sourceVars, column_, nesting_depth_, ec, mark, genVars>>

\* The structure type case_array passes to parse_e_list.
array_list_type == "document"

case_array ==
    /\ Case(bson_format.array_cd)
    /\ \E avail \in Prefixes(LenFields) :
          LET r == source_read(Source, 4, avail)
          IN /\ SetSource(r.src)
             /\ IF Len(r.got) # 4
                THEN Throw("bson_error")
                ELSE /\ Emit(<<BeginArray>>)
                     /\ nesting_depth_' = nesting_depth_ + 1
                     /\ frames' = SetBack(frames, Frame("parse_some", "array_end", 0))
                                     \o <<Frame("parse_e_list", "loop", array_list_type)>>
                     /\ UNCHANGED status
    /\ step' = "case_array"
    /\ UNCHANGED <<codecVars, column_, ec, mark, genVars>>

\* Mutant of array_end: nesting_depth_ is not decremented.
array_end_no_decrement ==
    /\ At("parse_some", "array_end")
    /\ Emit(<<EndArray>>)
    /\ UNCHANGED nesting_depth_
    /\ Return(PopBack(frames))
    /\ step' = "array_end"
    /\ UNCHANGED <<codecVars, sourceVars, column_, ec, mark, genVars>>

\* The array case, after parse_e_list has returned.
array_end ==
    /\ At("parse_some", "array_end")
    /\ Emit(<<EndArray>>)
    /\ nesting_depth_' = nesting_depth_ - 1
    /\ Return(PopBack(frames))
    /\ step' = "array_end"
    /\ UNCHANGED <<codecVars, sourceVars, column_, ec, mark, genVars>>

case_null ==
    /\ Case(bson_format.null_cd)
    /\ Scalar(NullValue)
    /\ step' = "case_null"
    /\ UNCHANGED <<codecVars, sourceVars, column_, ec, mark, genVars>>

bool_event(buf) == BoolValue(buf[1] # 0)

case_bool ==
    /\ Case(bson_format.bool_cd)
    /\ \E avail \in Prefixes(BoolPayloads) :
          LET r == source_read(Source, 1, avail)
          IN /\ SetSource(r.src)
             /\ IF Len(r.got) # 1
                THEN Throw("bson_error")
                ELSE Scalar(bool_event(r.got))
    /\ step' = "case_bool"
    /\ UNCHANGED <<codecVars, column_, ec, mark, genVars>>

\* Mutant of int32_event: the payload is taken big-endian.
int32_event_big_endian(buf) == Int64Value(from_big_endian_signed(buf))

\* from_little_endian<int32_t>, widened by the call of int64_value.
int32_event(buf) == Int64Value(from_little_endian_signed(buf))

case_int32 ==
    /\ Case(bson_format.int32_cd)
    /\ \E avail \in Prefixes(Int32Payloads) :
          LET r == source_read(Source, 4, avail)
          IN /\ SetSource(r.src)
             /\ IF Len(r.got) # 4
                THEN Throw("bson_error")
                ELSE Scalar(int32_event(r.got))
    /\ step' = "case_int32"
    /\ UNCHANGED <<codecVars, column_, ec, mark, genVars>>

timestamp_event(buf) == UInt64Value(from_little_endian_unsigned(buf), "epoch_time")

case_timestamp ==
    /\ Case(bson_format.timestamp_cd)
    /\ \E avail \in Prefixes(TimestampPayloads) :
          LET r == source_read(Source, 8, avail)
          IN /\ SetSource(r.src)
             /\ IF Len(r.got) # 8
                THEN Throw("bson_error")
                ELSE Scalar(timestamp_event(r.got))
    /\ step' = "case_timestamp"
    /\ UNCHANGED <<codecVars, column_, ec, mark, genVars>>

int64_event(buf) == Int64Value(from_little_endian_signed(buf))

case_int64 ==
    /\ Case(bson_format.int64_cd)
    /\ \E avail \in Prefixes(Int64Payloads) :
          LET r == source_read(Source, 8, avail)
          IN /\ SetSource(r.src)
             /\ IF Len(r.got) # 8
                THEN Throw("bson_error")
                ELSE Scalar(int64_event(r.got))
    /\ step' = "case_int64"
    /\ UNCHANGED <<codecVars, column_, ec, mark, genVars>>

case_binary ==
    /\ Case(bson_format.binary_cd)
    /\ \E avail \in Prefixes(BinaryLengths) :
          LET r == source_read(Source, 4, avail)
              len == from_little_endian_signed(r.got)
          IN /\ mark' = IF Len(r.got) = 4 THEN Len(r.src.consumed) ELSE 0
             /\ IF Len(r.got) # 4
                THEN SetSource(r.src) /\ Fail({"bson_error"})
                ELSE IF TooLong(len)
                THEN SetSource(r.src) /\ Fail({"length_error"})
                ELSE \E bytes \in UpTo(TextOffers, len) :
                        LET v == source_read(r.src, len, bytes)
                        IN IF Len(v.got) # len
                           THEN SetSource(v.src) /\ Fail({"bson_error"})
                           ELSE /\ SetSource(v.src)
                                /\ Emit(<<ByteStringValue(v.got)>>)
                                /\ Return(PopBack(frames))
                                /\ UNCHANGED nesting_depth_
    /\ step' = "case_binary"
    /\ UNCHANGED <<codecVars, column_, ec, genVars>>

\* Mutant of case_default: an unrecognised tag is looked at again instead of
\* being passed over.
case_default_again ==
    /\ At("parse_some", "switch")
    /\ Back(frames).arg \notin KnownTags
    /\ Emit(<<>>)
    /\ UNCHANGED <<frames, status>>
    /\ step' = "case_default"
    /\ UNCHANGED <<codecVars, sourceVars, column_, nesting_depth_, ec, mark, genVars>>

\* No case of the switch matches the tag: nothing is read, nothing is called.
case_default ==
    /\ At("parse_some", "switch")
    /\ Back(frames).arg \notin KnownTags
    /\ Emit(<<>>)
    /\ Return(PopBack(frames))
    /\ step' = "case_default"
    /\ UNCHANGED <<codecVars, sourceVars, column_, nesting_depth_, ec, mark, genVars>>

\* decode_bson: a decoder, a reader over the input, and the call of read(ec).
Init ==
    /\ InitIdle
    /\ InitNoCodec
    /\ frames = <<Frame("read", "begin", 0)>>
    /\ status = "running"
    /\ wide \in BOOLEAN

Next ==
    \/ read_begin
    \/ read_end
    \/ parse_e_list_end
    \/ parse_e_list_element
    \/ case_double
    \/ case_string
    \/ case_document
    \/ document_ret
    \/ case_array
    \/ array_end
    \/ case_null
    \/ case_bool
    \/ case_int32
    \/ case_timestamp
    \/ case_int64
    \/ case_binary
    \/ case_default

Spec == Init /\ [][Next]_vars

(***************************************************************************)
(* Claims about the BSON reader and decode_bson, under Spec                *)
(***************************************************************************)
Thrown == status \in {"bson_error", "length_error", "bad_alloc", "parse_error"}

\* The kinds of the containers open after the first i calls of es.
RECURSIVE OpenAt(_, _)
OpenAt(es, i) ==
    IF i = 0 THEN <<>>
    ELSE LET o == OpenAt(es, i - 1)
         IN CASE es[i].ev = "begin_object" -> Append(o, "object")
              [] es[i].ev = "begin_array" -> Append(o, "array")
              [] es[i].ev \in {"end_object", "end_array"} -> PopBack(o)
              [] OTHER -> o

LastBytes(n) == SubSeq(consumed, Len(consumed) - n + 1, Len(consumed))

\* C4: when read() returns without raising, the handler calls it made are a
\* sentence of the event grammar: balanced and nested begin/end calls, every
\* Name directly inside an object and followed by exactly one value.
C4_GrammarConforming == status = "returned" => Complete(calls)

\* C5: no Name event is emitted for an element of an embedded array; a Name
\* is emitted only directly inside a document.
C5_NoNameInArray ==
    \A i \in 1..Len(calls) :
        calls[i].ev = "name" =>
            LET o == OpenAt(calls, i - 1)
            IN Len(o) > 0 /\ Back(o) = "object"

\* The well-formed input of the shape {"x":[{"y":"z"}]} and its value.
NestedInput ==
    <<30, 0, 0, 0, 4, 120, 0,
      22, 0, 0, 0, 3, 48, 0,
      14, 0, 0, 0, 2, 121, 0, 2, 0, 0, 0, 122, 0,
      0, 0, 0>>

NestedValue ==
    json_object(<<member(<<120>>,
        json_array(<<json_object(<<member(<<121>>, json_string(<<122>>))>>)>>))>>)

\* C6: the events the reader emits for the well-formed input of the shape
\* {"x":[{"y":"z"}]}, fed to the builder, give a root of exactly that shape.
C6_NestedShape ==
    (status = "returned" /\ consumed = NestedInput) => root_ = NestedValue

\* C6 witness: read() has returned from that input, read to its last byte.
C6_Witness == status = "returned" /\ consumed = NestedInput /\ ~eof

\* The string case has read a length field, and the input ended with fewer
\* bytes after it than the length it declares.
StringCutShort ==
    /\ step = "case_string"
    /\ mark > 0
    /\ eof
    /\ Len(consumed) - mark < from_little_endian_signed(SubSeq(consumed, mark - 3, mark))

\* C7: a string element that declares a length L with fewer than L bytes left
\* in the input makes the reader fail, and no StringValue is emitted for it.
C7_TruncatedStringFails == StringCutShort => Thrown

\* C8: an input that ends before a required byte (the terminator of an element
\* list, the NUL of a name, the NUL of a string) is never decoded with success.
C8_ShortInputFails == status = "returned" => ~eof

\* The int32 case has emitted its event.
Int32Emitted == step = "case_int32" /\ ~Thrown

\* C9: a step of the int32 case that does not raise makes one handler call, an
\* Int64Value whose value is the two's-complement signed 32-bit reading of the
\* 4-byte little-endian payload just read (FF FF FF FF is -1).
C9_Int32SignExtended ==
    [][(step' = "case_int32" /\ ~Thrown') =>
          LET p == SubSeq(consumed', Len(consumed') - 3, Len(consumed'))
              e == Back(calls')
          IN /\ Len(consumed') = Len(consumed) + 4
             /\ calls' = Append(calls, e)
             /\ e.ev = "int64_value"
             /\ e.v >= -2147483647 - 1 /\ e.v <= 2147483647
             /\ \A i \in 0..3 : (e.v \div (256 ^ i)) % 256 = p[i + 1]]_vars

\* C9 witness: the payload FF FF FF FF has been decoded, to -1.
C9_Witness ==
    /\ Int32Emitted
    /\ LastBytes(4) = <<255, 255, 255, 255>>
    /\ Back(calls).v = -1

\* C10: an element with an unrecognised type tag produces no event at all,
\* neither a Name nor a value, and no error.
C10_UnknownTagSilent ==
    step = "case_default" =>
        /\ ~Thrown
        /\ Len(calls) > 0 => Back(calls).ev # "name"

(***************************************************************************)
(* Errors of read(ec): what is raised and the position it reports          *)
(***************************************************************************)
\* The statuses in which an exception has left read(ec).
Raised == status \in {"bson_error", "length_error", "bad_alloc"}

\* C13: read(ec) never raises on malformed or truncated input; it reports the
\* failure through the error code instead.
C13_ErrorCodeNeverRaises == ~Raised

\* The position every bson_error of the reader is constructed with.
bson_error_position == 0

line_number == 1
column_number == column_

\* C14: the position delivered with a decode failure, by the raised bson_error
\* or by column_number() in the parse_error of decode_bson, is the number of
\* input bytes consumed when the failure was detected.
C14_ErrorPosition ==
    /\ status = "bson_error" => bson_error_position = Len(consumed)
    /\ status = "parse_error" => column_number = Len(consumed)

(***************************************************************************)
(* Depth bookkeeping of the builder and of the reader                      *)
(***************************************************************************)
Open == OpenAt(calls, Len(calls))

\* C19: under grammar-conforming events the frame stack has one frame per
\* container begun and not yet ended, and the top frame is of the kind of the
\* innermost open container.
C19_StackTracksNesting ==
    status = "events" =>
        /\ Len(stack_) = Len(Open)
        /\ Len(Open) > 0 => Back(stack_).is_object_ = (Back(Open) = "object")

\* C19 witness: an array frame on top of an object frame, after a container
\* has already been closed.
C19_Witness ==
    /\ status = "events"
    /\ Len(stack_) = 2
    /\ stack_[1].is_object_ /\ ~stack_[2].is_object_
    /\ \E i \in 1..Len(calls) : calls[i].ev \in {"end_object", "end_array"}

\* C20: nesting_depth_ is the number of containers the reader has begun and
\* not yet ended, and is 0 when read() has returned.
C20_DepthTracksNesting ==
    status \in {"running", "returned"} =>
        /\ nesting_depth_ = Len(Open)
        /\ status = "returned" => nesting_depth_ = 0

\* C20 witness: read() has returned from an input with an embedded array
\* inside an embedded document.
C20_Witness ==
    /\ status = "returned"
    /\ nesting_depth_ = 0
    /\ \E i \in 1..Len(calls) :
          calls[i].ev = "begin_array" /\ Len(OpenAt(calls, i)) = 3

(***************************************************************************)
(* The builder driven by a producer that may also call name() where no     *)
(* object frame is on top, and may send a scalar as the top-level value.   *)
(* The handlers reach the frame through stack_.back() with no test of      *)
(* stack_.empty(); on an empty vector that is undefined behaviour, taken   *)
(* here as either a crash or a stray access that leaves stack_ and root_   *)
(* as they were.                                                           *)
(***************************************************************************)
BackOfEmpty == {"crashed", "events"}

RootScalars ==
    <<StringValue(<<122>>), Int64Value(1), UInt64Value(1, "none"),
      DoubleValue(<<63, 248, 0, 0, 0, 0, 0, 0>>), BoolValue(TRUE), NullValue>>

\* name(s) called while the top frame is an array frame, or with no frame.
stray_name ==
    /\ status = "events"
    /\ Len(calls) < MaxEvents
    /\ Conforms(calls)
    /\ \E s \in Names :
          /\ calls' = Append(calls, Name(s))
          /\ IF stack_ = <<>>
             THEN /\ status' \in BackOfEmpty
                  /\ UNCHANGED builderVars
             ELSE /\ ~Back(stack_).is_object_
                  /\ stack_' = do_name(Builder, s).stack_
                  /\ root_' = do_name(Builder, s).root_
                  /\ UNCHANGED status
    /\ step' = "stray_name"
    /\ UNCHANGED <<heapVars, codecVars, sourceVars, readerVars, genVars>>

\* A scalar event as the first call: the top-level value is a scalar.
root_scalar ==
    /\ status = "events"
    /\ calls = <<>>
    /\ stack_ = <<>>
    /\ \E i \in 1..Len(RootScalars) : calls' = Append(calls, RootScalars[i])
    /\ status' \in BackOfEmpty
    /\ step' = "root_scalar"
    /\ UNCHANGED <<heapVars, codecVars, builderVars, sourceVars, readerVars, genVars>>

NextProtocol ==
    \/ begin_object
    \/ end_object
    \/ begin_array
    \/ end_array
    \/ name
    \/ integer_value
    \/ stray_name
    \/ root_scalar

SpecProtocol == InitBuilder /\ [][NextProtocol]_vars

\* C17: a name() call with an array frame on top, or with no frame, is
\* rejected and changes no frame: neither a pending key nor contents.
C17_StrayNameRejected ==
    [][step' = "stray_name" =>
          (status' = "rejected" /\ stack_' = stack_ /\ root_' = root_)]_vars

\* C18: a scalar event received with an empty frame stack is accepted and
\* becomes the document root.
C18_RootScalarAccepted ==
    step = "root_scalar" =>
        /\ status = "events"
        /\ stack_ = <<>>
        /\ root_ = ScalarOf(calls[1])

(***************************************************************************)
(* conversion_traits<T>: the container types.  A type is a record naming   *)
(* the shape (c) and the element, mapped or component types (of); the      *)
(* container of a vector-like type or a std::array is the sequence of its  *)
(* elements, that of a map-like type the sequence of its (key, value)      *)
(* entries in iteration order, that of a tuple the sequence of its         *)
(* components.  The scalar type is a 64-bit integer.                       *)
(***************************************************************************)
MaxItems == 2

IntT == [c |-> "int"]
Vector(T) == [c |-> "vector", of |-> T]
StdArray(T, N) == [c |-> "array", of |-> T, n |-> N]
Map(T) == [c |-> "map", of |-> T]
Tuple(Ts) == [c |-> "tuple", of |-> Ts]

SeqsUpTo(S, n) == UNION {[1..k -> S] : k \in 0..n}

\* Byte strings in the order of std::less<std::string>.
RECURSIVE Less(_, _)
Less(a, b) ==
    IF Len(b) = 0 THEN FALSE
    ELSE IF Len(a) = 0 THEN TRUE
    ELSE IF a[1] # b[1] THEN a[1] < b[1]
    ELSE Less(Tail(a), Tail(b))

\* The containers of type T with at most MaxItems elements or entries.
RECURSIVE Values(_)
Values(T) ==
    CASE T.c = "int" -> IntValues
      [] T.c = "vector" -> SeqsUpTo(Values(T.of), MaxItems)
      [] T.c = "array" -> [1..T.n -> Values(T.of)]
      [] T.c = "map" ->
            {m \in SeqsUpTo(Names \X Values(T.of), MaxItems) :
                \A i \in 1..Len(m) - 1 : Less(m[i][1], m[i + 1][1])}
      [] T.c = "tuple" ->
            IF Len(T.of) = 2
            THEN {<<a, b>> : a \in Values(T.of[1]), b \in Values(T.of[2])}
            ELSE {<<a, b, d>> : a \in Values(T.of[1]), b \in Values(T.of[2]),
                                d \in Values(T.of[3])}

(***************************************************************************)
(* conversion_traits<T>::encode and encode_json.  The result is the        *)
(* sequence of calls made on the handler, flush() among them.              *)
(***************************************************************************)
Flush == [ev |-> "flush"]

RECURSIVE encode(_, _), encode_elements(_, _, _), encode_entries(_, _, _),
          tuple_helper_encode(_, _, _)

\* The loops over std::begin(val) .. std::end(val).
encode_elements(T, v, i) ==
    IF i > Len(v) THEN <<>>
    ELSE encode(T, v[i]) \o encode_elements(T, v, i + 1)

encode_entries(T, m, i) ==
    IF i > Len(m) THEN <<>>
    ELSE <<Name(m[i][1])>> \o encode(T, m[i][2]) \o encode_entries(T, m, i + 1)

\* Mutant of tuple_helper_encode: the components are taken from the last.
tuple_helper_encode_reversed(Ts, Pos, tuple) ==
    IF Pos = 0 THEN <<>>
    ELSE encode(Ts[Pos], tuple[Pos])
            \o tuple_helper_encode(Ts, Pos - 1, tuple)

\* tuple_helper<Pos, Tuple>::encode: component tuple_size - Pos, then next.
tuple_helper_encode(Ts, Pos, tuple) ==
    IF Pos = 0 THEN <<>>
    ELSE encode(Ts[Len(Ts) - Pos + 1], tuple[Len(Ts) - Pos + 1])
            \o tuple_helper_encode(Ts, Pos - 1, tuple)

\* The scalar fallback: to_json(val).dump(serializer).
encode_scalar(v) == <<Int64Value(v)>>

encode(T, v) ==
    CASE T.c = "int" -> encode_scalar(v)
      [] T.c \in {"vector", "array"} ->
            <<BeginArray>> \o encode_elements(T.of, v, 1) \o <<EndArray, Flush>>
      [] T.c = "map" ->
            <<BeginObject>> \o encode_entries(T.of, v, 1) \o <<EndObject, Flush>>
      [] T.c = "tuple" ->
            <<BeginArray>> \o tuple_helper_encode(T.of, Len(T.of), v) \o <<EndArray>>

encode_json_calls(T, v) == encode(T, v) \o <<Flush>>

(***************************************************************************)
(* The event source of decode: a basic_staj_reader over the sequence       *)
(* stream, its position the index c of the current event.  The reader and  *)
(* the array and object iterators pull events one at a time; an iterator   *)
(* skips the opening event at construction, decodes one element ahead and  *)
(* is exhausted when it meets the closing event, which it consumes.  A     *)
(* pull past the last event is an error: it is raised, or it sets ec.      *)
(* An iterator is the record [at_end, err, c, v]: v is the pending element.*)
(***************************************************************************)
done(c) == c > Len(stream)

NoValue == "none"

\* What an object of type T holds after "T v;": an int is indeterminate (g),
\* a std::array holds default-initialized elements, other containers are empty.
RECURSIVE DefaultInit(_, _)
DefaultInit(T, g) ==
    CASE T.c = "int" -> g
      [] T.c = "array" -> [i \in 1..T.n |-> DefaultInit(T.of, g)]
      [] OTHER -> <<>>

\* The values an indeterminate int may be read as; 0 is the default value.
Indeterminate == {0, 7}

\* std::map::emplace: no insertion when the key is present.
emplace(m, k, v) ==
    IF \E i \in 1..Len(m) : m[i][1] = k THEN m
    ELSE LET n == Cardinality({i \in 1..Len(m) : Less(m[i][1], k)})
         IN SubSeq(m, 1, n) \o <<<<k, v>>>> \o SubSeq(m, n + 1, Len(m))

RECURSIVE decode(_, _, _, _), array_iterator_next(_, _, _, _),
          object_iterator_next(_, _, _, _), decode_vector_loop(_, _, _, _, _),
          decode_array_loop(_, _, _, _, _, _), decode_array_ec_loop(_, _, _, _, _, _),
          decode_map_loop(_, _, _, _, _), decode_map_ec_loop(_, _, _, _)

\* value_type of a map-like T: std::pair<const key_type, mapped_type>.
Pair(T) == [c |-> "pair", of |-> T]

\* as<std::pair<K, V>>() of a built value: no object converts to a pair.
as_pair(j) == NoValue

\* The fallback for a pair: the reader's value, whole, is built by a
\* json_decoder and converted.
decode_pair(c) ==
    IF done(c) THEN [v |-> NoValue, c |-> c, err |-> TRUE]
    ELSE LET p == ParseValue(stream, c)
         IN [v |-> as_pair(p.val),
             c |-> IF p.next > Len(stream) THEN Len(stream) + 1 ELSE p.next,
             err |-> as_pair(p.val) = NoValue]

\* The scalar fallback: the reader's value is built and converted to T.
decode_scalar(c) ==
    IF done(c) THEN [v |-> NoValue, c |-> c, err |-> TRUE]
    ELSE [v |-> stream[c].v, c |-> c + 1, err |-> FALSE]

array_iterator_next(ep, T, c, g) ==
    IF done(c) THEN [at_end |-> TRUE, err |-> TRUE, c |-> c, v |-> NoValue]
    ELSE IF stream[c].ev = "end_array"
    THEN [at_end |-> TRUE, err |-> FALSE, c |-> c + 1, v |-> NoValue]
    ELSE LET d == decode(ep, T, c, g)
         IN [at_end |-> FALSE, err |-> d.err, c |-> d.c, v |-> d.v]

array_iterator(ep, T, c, g) ==
    array_iterator_next(ep, T,
        IF ~done(c) /\ stream[c].ev = "begin_array" THEN c + 1 ELSE c, g)

object_iterator_next(ep, T, c, g) ==
    IF done(c) THEN [at_end |-> TRUE, err |-> TRUE, c |-> c, v |-> NoValue]
    ELSE IF stream[c].ev = "end_object"
    THEN [at_end |-> TRUE, err |-> FALSE, c |-> c + 1, v |-> NoValue]
    ELSE LET d == decode(ep, T, c + 1, g)
         IN [at_end |-> FALSE, err |-> d.err, c |-> d.c, v |-> <<stream[c].v, d.v>>]

object_iterator(ep, T, c, g) ==
    object_iterator_next(ep, T,
        IF ~done(c) /\ stream[c].ev = "begin_object" THEN c + 1 ELSE c, g)

\* vector-like: push_back of every element, by either entry point.  The
\* entry points with ec advance by the statement it->increment(ec), taken
\* as the advance of the iterator it.
decode_vector_loop(ep, T, it, v, g) ==
    IF it.err \/ it.at_end THEN [v |-> v, c |-> it.c, err |-> it.err]
    ELSE decode_vector_loop(ep, T, array_iterator_next(ep, T, it.c, g),
                            Append(v, it.v), g)

decode_vector(T, c, g) ==
    decode_vector_loop("raise", T.of, array_iterator("raise", T.of, c, g), <<>>, g)

decode_vector_ec(T, c, g) ==
    decode_vector_loop("ec", T.of, array_iterator("ec", T.of, c, g), <<>>, g)

\* std::array, raising: every element is pulled, the first N are assigned.
decode_array_loop(T, N, it, v, i, g) ==
    IF it.err \/ it.at_end THEN [v |-> v, c |-> it.c, err |-> it.err]
    ELSE decode_array_loop(T, N, array_iterator_next("raise", T, it.c, g),
                           IF i < N THEN [v EXCEPT ![i + 1] = it.v] ELSE v,
                           IF i < N THEN i + 1 ELSE i, g)

decode_array(T, c, g) ==
    decode_array_loop(T.of, T.n, array_iterator("raise", T.of, c, g),
                      DefaultInit(T, g), 0, g)

\* std::array, with ec: the loop also ends when i reaches N.
decode_array_ec_loop(T, N, it, v, i, g) ==
    IF it.err \/ it.at_end \/ ~(i < N) THEN [v |-> v, c |-> it.c, err |-> it.err]
    ELSE decode_array_ec_loop(T, N, array_iterator_next("ec", T, it.c, g),
                              [v EXCEPT ![i + 1] = it.v], i + 1, g)

decode_array_ec(T, c, g) ==
    decode_array_ec_loop(T.of, T.n, array_iterator("ec", T.of, c, g),
                         DefaultInit(T, g), 0, g)

\* map-like, raising: emplace of every (key, value) of an object iterator.
decode_map_loop(ep, T, it, m, g) ==
    IF it.err \/ it.at_end THEN [v |-> m, c |-> it.c, err |-> it.err]
    ELSE decode_map_loop(ep, T, object_iterator_next(ep, T, it.c, g),
                         emplace(m, it.v[1], it.v[2]), g)

decode_map(T, c, g) ==
    decode_map_loop("raise", T.of, object_iterator("raise", T.of, c, g), <<>>, g)

\* map-like, with ec: the iterator is an array iterator whose elements are
\* of the map's value_type, the pair of a key and a mapped value.
decode_map_ec_loop(T, it, m, g) ==
    IF it.err \/ it.at_end THEN [v |-> m, c |-> it.c, err |-> it.err]
    ELSE decode_map_ec_loop(T, array_iterator_next("ec", T, it.c, g),
                            emplace(m, it.v[1], it.v[2]), g)

decode_map_ec(T, c, g) ==
    decode_map_ec_loop(Pair(T.of), array_iterator("ec", Pair(T.of), c, g), <<>>, g)

\* conversion_traits<T>::decode(reader) and decode(reader, ec), by the type.
decode(ep, T, c, g) ==
    CASE T.c = "int" -> decode_scalar(c)
      [] T.c = "vector" ->
            IF ep = "raise" THEN decode_vector(T, c, g) ELSE decode_vector_ec(T, c, g)
      [] T.c = "array" ->
            IF ep = "raise" THEN decode_array(T, c, g) ELSE decode_array_ec(T, c, g)
      [] T.c = "map" ->
            IF ep = "raise" THEN decode_map(T, c, g) ELSE decode_map_ec(T, c, g)
      [] T.c = "pair" -> decode_pair(c)

(***************************************************************************)
(* The inputs of the codec.  An event stream is written from a source      *)
(* value: an array of any length up to MaxItems for a vector-like or       *)
(* std::array target, an object whose keys may repeat for a map-like one.  *)
(***************************************************************************)
Entries(T) == [c |-> "entries", of |-> T]

RECURSIVE SourceType(_)
SourceType(T) ==
    CASE T.c = "int" -> T
      [] T.c \in {"vector", "array"} -> Vector(SourceType(T.of))
      [] T.c = "map" -> Entries(SourceType(T.of))

RECURSIVE SourceValues(_)
SourceValues(S) ==
    CASE S.c = "int" -> IntValues
      [] S.c = "vector" -> SeqsUpTo(SourceValues(S.of), MaxItems)
      [] S.c = "entries" -> SeqsUpTo(Names \X SourceValues(S.of), MaxItems)

\* The events of a value, by the grammar of the event protocol.
RECURSIVE EventsOf(_, _), ElementEvents(_, _, _), MemberEvents(_, _, _),
          ComponentEvents(_, _, _)
ElementEvents(T, v, i) ==
    IF i > Len(v) THEN <<>>
    ELSE EventsOf(T, v[i]) \o ElementEvents(T, v, i + 1)
MemberEvents(T, m, i) ==
    IF i > Len(m) THEN <<>>
    ELSE <<Name(m[i][1])>> \o EventsOf(T, m[i][2]) \o MemberEvents(T, m, i + 1)
ComponentEvents(Ts, t, i) ==
    IF i > Len(Ts) THEN <<>>
    ELSE EventsOf(Ts[i], t[i]) \o ComponentEvents(Ts, t, i + 1)
EventsOf(T, v) ==
    CASE T.c = "int" -> <<Int64Value(v)>>
      [] T.c \in {"vector", "array"} ->
            <<BeginArray>> \o ElementEvents(T.of, v, 1) \o <<EndArray>>
      [] T.c \in {"map", "entries"} ->
            <<BeginObject>> \o MemberEvents(T.of, v, 1) \o <<EndObject>>
      [] T.c = "tuple" ->
            <<BeginArray>> \o ComponentEvents(T.of, v, 1) \o <<EndArray>>

Capacities == 1..(MaxItems + 1)

EncodeTargets ==
    <<Vector(IntT), Vector(Vector(IntT)), StdArray(IntT, 2),
      StdArray(Vector(IntT), 1), Map(IntT), Map(Vector(IntT)),
      Tuple(<<IntT, IntT>>), Tuple(<<IntT, Vector(IntT)>>),
      Tuple(<<Map(IntT), IntT, IntT>>)>>

DecodeTargets ==
    <<Vector(IntT), Vector(Vector(IntT)), Map(IntT), Map(Vector(IntT)),
      Vector(StdArray(IntT, 1))>>
        \o [k \in Capacities |-> StdArray(IntT, k)]

(***************************************************************************)
(* The codec as a state machine: one encode_json or one decode per         *)
(* behaviour, on an input chosen at the start.                             *)
(***************************************************************************)
InitCodec ==
    /\ InitIdle
    /\ frames = <<>>
    /\ wide = FALSE
    /\ cursor = 1
    /\ \/ /\ status = "to_encode"
          /\ \E i \in 1..Len(EncodeTargets) :
                /\ target = EncodeTargets[i]
                /\ container \in Values(EncodeTargets[i])
          /\ stream = <<>>
       \/ /\ status = "to_decode"
          /\ \E i \in 1..Len(DecodeTargets) :
                /\ target = DecodeTargets[i]
                /\ \E v \in SourceValues(SourceType(DecodeTargets[i])) :
                      LET es == EventsOf(SourceType(DecodeTargets[i]), v)
                      IN \E n \in 0..Len(es) : stream = SubSeq(es, 1, n)
          /\ container = NoValue

\* encode_json(val, handler).
encode_json ==
    /\ status = "to_encode"
    /\ calls' = encode_json_calls(target, container)
    /\ status' = "encoded"
    /\ step' = "encode_json"
    /\ UNCHANGED <<builderVars, heapVars, sourceVars, readerVars, genVars, codecVars>>

\* conversion_traits<T>::decode(reader): an error is raised.
decode_raising ==
    /\ status = "to_decode"
    /\ \E g \in Indeterminate :
          LET d == decode("raise", target, cursor, g)
          IN /\ container' = IF d.err THEN NoValue ELSE d.v
             /\ cursor' = d.c
             /\ status' = IF d.err THEN "parse_error" ELSE "decoded"
    /\ step' = "decode"
    /\ UNCHANGED <<builderVars, heapVars, calls, sourceVars, readerVars, genVars,
                   target, stream>>

\* conversion_traits<T>::decode(reader, ec): an error of the reader sets ec.
\* For a map-like target an error met at an event of the stream is the
\* conversion of the built value to a pair, done outside ec: it is raised.
decode_with_ec ==
    /\ status = "to_decode"
    /\ \E g \in Indeterminate :
          LET d == decode("ec", target, cursor, g)
          IN IF target.c = "map" /\ d.err /\ ~done(cursor)
             THEN /\ container' = NoValue
                  /\ cursor' = d.c
                  /\ status' = "conversion_error"
                  /\ UNCHANGED ec
             ELSE /\ container' = d.v
                  /\ cursor' = d.c
                  /\ ec' = d.err
                  /\ status' = "decoded"
    /\ step' = "decode_ec"
    /\ UNCHANGED <<builderVars, heapVars, calls, sourceVars, column_, nesting_depth_,
                   frames, mark, genVars, target, stream>>

NextCodec ==
    \/ encode_json
    \/ decode_raising
    \/ decode_with_ec

SpecCodec == InitCodec /\ [][NextCodec]_vars

(***************************************************************************)
(* Claims about the codec, under SpecCodec                                 *)
(***************************************************************************)
\* The events among the calls made on a handler.
Events(cs) == SelectSeq(cs, LAMBDA e : e.ev # "flush")

\* C11: decoding a stream of N array elements into a std::array of capacity K,
\* by either entry point, reports no error and gives the first K elements
\* when K < N, and the N elements followed by K - N default values (0 for an
\* int) when K > N.
C11_FixedArrayTruncation ==
    (status = "decoded" /\ target.c = "array" /\ Complete(stream)) =>
        /\ ~ec
        /\ \A i \in 1..target.n :
              container[i] = IF i <= Len(stream) - 2 THEN stream[i + 1].v ELSE 0

\* C12: after a map-like decode of an object whose keys may repeat, the map
\* holds for every key of the stream the value of its last occurrence.
C12_MapLastWriteWins ==
    (status = "decoded" /\ target = Map(IntT) /\ Complete(stream)) =>
        LET n == (Len(stream) - 2) \div 2
            key(i) == stream[2 * i].v
            value(i) == stream[2 * i + 1].v
        IN \A i \in 1..n :
              LET last == Max({j \in 1..n : key(j) = key(i)})
              IN \E e \in 1..Len(container) : container[e] = <<key(i), value(last)>>

\* C15: the events encode emits for a container are those of its shape:
\* BeginArray, the elements' (or the components') events in order, EndArray
\* for a sequence, a std::array or a tuple; BeginObject, Name and value events
\* per entry in iteration order, EndObject for a map; and they are a complete
\* sentence of the grammar.
C15_EncodeEvents ==
    status = "encoded" =>
        /\ Events(calls) = EventsOf(target, container)
        /\ Complete(Events(calls))

\* C15 witness: a tuple of a map with two entries and two integers has been
\* encoded.
C15_Witness ==
    /\ status = "encoded"
    /\ target.c = "tuple"
    /\ Len(target.of) = 3
    /\ Len(container[1]) = 2
    /\ container[2] # container[3]

\* C16: during one encode_json every flush() comes after the complete
\* top-level value, never between the events of the value.
C16_NoImplicitFlush ==
    status = "encoded" =>
        \A i \in 1..Len(calls) :
            calls[i].ev = "flush" => Complete(Events(SubSeq(calls, 1, i - 1)))

(***************************************************************************)
(* The declared lengths of documents and arrays                            *)
(***************************************************************************)
\* The declared length of the outermost document, once it has been read.
declared_length == from_little_endian_signed(SubSeq(consumed, 1, 4))

\* C21: the 4-byte length prefix of a document or an embedded array is only a
\* hint.  Whatever value the four bytes hold, read and the array case deliver
\* the begin event, go one level deeper and enter the element list; and a
\* list ends, whatever length was declared, only at a 0x00 byte or where the
\* input ends.
C21_LengthIsHint ==
    [][/\ (step' \in {"read_begin", "case_array"}
            /\ Len(consumed') = Len(consumed) + 4) =>
              /\ calls' = Append(calls, IF step' = "read_begin"
                                        THEN BeginObject ELSE BeginArray)
              /\ nesting_depth_' = nesting_depth_ + 1
              /\ status' = status
              /\ Len(frames') = Len(frames) + 1
              /\ Back(frames') = Frame("parse_e_list", "loop", "document")
       /\ step' = "parse_e_list_end" =>
              /\ calls' = calls
              /\ IF Len(consumed') = Len(consumed)
                 THEN eof'
                 ELSE consumed' = Append(consumed, 0)]_vars

\* A document whose declared length is negative or smaller than what was
\* read from it has been decoded to its end, with an element in it.
C21_Witness ==
    /\ status = "returned"
    /\ Len(calls) > 2
    /\ Back(calls) = EndObject
    /\ Back(consumed) = 0
    /\ declared_length < Len(consumed)
    /\ \E i \in 1..Len(calls) : calls[i] = BeginArray


(***************************************************************************)
(* The declared lengths of strings and binaries                            *)
(***************************************************************************)
\* The length field of the string or binary element read last.
element_length == from_little_endian_signed(SubSeq(consumed, mark - 3, mark))

\* C23: a string whose declared length is below 1 and a binary whose declared
\* length is below 0 are rejected with a decode error, and nothing is read
\* past the length field.
C23_InvalidLengthRejected ==
    (/\ step \in {"case_string", "case_binary"}
     /\ mark >= 4
     /\ element_length < (IF step = "case_string" THEN 1 ELSE 0)) =>
        /\ status = "bson_error"
        /\ Len(consumed) = mark

(***************************************************************************)
(* Termination of read                                                     *)
(***************************************************************************)
\* The number of entries into read and into an embedded array among es.
Entered(es) ==
    Cardinality({i \in 1..Len(es) : es[i].ev \in {"begin_object", "begin_array"}})

\* C24: read terminates on every finite input.  Each iteration of the loop of
\* parse_e_list consumes at least one byte, and so does each entry into read
\* or an embedded array that does not raise; a step that consumes nothing
\* returns from a call or raises, or is the call of read for an embedded
\* document; so the iterations and entries made never outnumber the bytes
\* consumed.
C24_ReadTerminates ==
    [][/\ step' = "parse_e_list_element" => Len(consumed') > Len(consumed)
       /\ (step' \in {"read_begin", "case_array"} /\ status' = "running") =>
              Len(consumed') > Len(consumed)
       /\ Len(consumed') = Len(consumed) =>
              \/ Len(frames') < Len(frames)
              \/ status' # "running"
              \/ step' = "case_document" /\ Back(frames') = Frame("read", "begin", 0)
       /\ elems' + Entered(calls') <= Len(consumed')]_vars

\* A decode that has returned after two or more elements, the first of them
\* with an unrecognised tag.
C24_Witness ==
    /\ status = "returned"
    /\ elems >= 2
    /\ Len(consumed) > 5
    /\ consumed[5] \notin KnownTags

(***************************************************************************)
(* The builder and its containers: grammar-conforming events, and the      *)
(* destruction of the builder at any point, under SpecOwnership            *)
(***************************************************************************)
\* ~basic_json_deserializer(), with whatever items are on stack_; the vector
\* and its items go with the builder.
destructor ==
    /\ status = "events"
    /\ heap' = destructor_loop(heap, pointers)
    /\ pointers' = <<>>
    /\ stack_' = <<>>
    /\ status' = "destroyed"
    /\ step' = "destructor"
    /\ UNCHANGED <<root_, calls, codecVars, sourceVars, readerVars, genVars>>

NextOwnership ==
    \/ begin_object
    \/ end_object
    \/ begin_array
    \/ end_array
    \/ name
    \/ integer_value
    \/ destructor

SpecOwnership == InitBuilder /\ [][NextOwnership]_vars

\* The items of stack_ that point to the allocation p.
Referring(p) == {i \in 1..Len(pointers) : pointers[i] = p}

\* C22: every container allocated at a begin event is released exactly once.
\* One allocation is made per begin event.  A container handed over at its
\* end event is owned by the value built from it, is referred to by no item
\* and is never deleted by the builder.  A container not handed over is
\* referred to by exactly one item, the one pushed at its begin event, while
\* the builder lives, and has been deleted exactly once when the builder has
\* been destroyed.
C22_ReleasedExactlyOnce ==
    /\ Len(heap) = Entered(calls)
    /\ status = "events" => Len(pointers) = Len(stack_)
    /\ \A p \in 1..Len(heap) :
          /\ heap[p].deleted <= 1
          /\ heap[p].owner = "value" =>
                /\ heap[p].deleted = 0
                /\ Referring(p) = {}
          /\ heap[p].owner = "frame" =>
                IF status = "destroyed"
                THEN heap[p].deleted = 1
                ELSE /\ heap[p].deleted = 0
                     /\ Cardinality(Referring(p)) = 1
                     /\ \A i \in Referring(p) :
                           stack_[i].is_object_ = heap[p].is_object_

\* A builder destroyed with two items on its stack, after a container was
\* handed over to the item below it.
C22_Witness ==
    /\ status = "destroyed"
    /\ \E p, q, r \in 1..Len(heap) :
          /\ p # q
          /\ heap[p].owner = "frame" /\ heap[p].deleted = 1
          /\ heap[q].owner = "frame" /\ heap[q].deleted = 1
          /\ heap[r].owner = "value"

(***************************************************************************)
(* The position of the event source after a decode, under SpecCodec        *)
(***************************************************************************)
\* The target is a fixed array, or a sequence of fixed arrays.
OfFixedArrays(T) == T.c = "array" \/ (T.c = "vector" /\ T.of.c = "array")

\* C25: after a fixed-array decode that returns without error, by either
\* entry point, the event source is just past the EndArray of the array
\* decoded, also when the stream held more elements than the capacity; so
\* decoding an array of arrays gives one fixed array per inner array and
\* ends past the last event.
C25_PastEndArray ==
    (/\ status = "decoded"
     /\ ~ec
     /\ OfFixedArrays(target)
     /\ Complete(stream)) =>
        /\ cursor = Len(stream) + 1
        /\ target.c = "vector" => Len(container) = Entered(stream) - 1

(***************************************************************************)
(* The two entry points of a decode, under SpecCodec                       *)
(***************************************************************************)
\* C26: on a well-formed event stream decode(reader) and decode(reader, ec)
\* of the same shape both return, without an error and with ec unset, and
\* the containers they return are equal.
C26_EntryPointsAgree ==
    (step \in {"decode", "decode_ec"} /\ Complete(stream)) =>
        /\ status = "decoded"
        /\ ~ec
        /\ \E g \in Indeterminate :
              LET r == decode("raise", target, 1, g)
                  e == decode("ec", target, 1, g)
              IN /\ ~r.err /\ r.v = container
                 /\ ~e.err /\ e.v = container

====
